---- MODULE Spec2Model ----
(***************************************************************************)
(* Model of the two notebooks of azure-openai-raft-workshop:               *)
(*   2_raft_finetuning.ipynb  cost estimate, upload, submit, poll, deploy  *)
(*   the evaluation notebook  inference, answer clean-up, datasets         *)
(* Python strings are sequences of one-character strings; None is NULL.    *)
(***************************************************************************)
EXTENDS Integers, Sequences, FiniteSets, TLC

NULL == "None"

(***************************************************************************)
(* Bounds of the model.                                                    *)
(***************************************************************************)
\* the observers sleeps / poll_retrievals count up to MaxCount and then stay
MaxCount == 3

(***************************************************************************)
(* The fine-tuning notebook: program variables, the remote service, and    *)
(* observers of what the run has done.                                     *)
(***************************************************************************)
VARIABLES
    pc,                 \* next statement of the fine-tuning notebook
    training_file_id,   \* program variables
    validation_file_id,
    job_id,
    status,
    fine_tuned_model,
    r,                  \* HTTP status of the deployment response, 0: none yet
    svc_files,          \* file ids the service issued, in order
    svc_job,            \* the job request the service received
    svc_job_id,         \* the job id the service issued
    job_status,         \* the status of the job at the service
    first_status,       \* observer: status returned by the first retrieval
    last_returned,      \* observer: status returned by the latest retrieval of the poll cell
    sleeps,             \* observer: time.sleep(10) calls made
    poll_retrievals,    \* observer: retrievals made inside the loop body
    retrieve_args,      \* observer: job ids passed to jobs.retrieve
    printed_status,     \* observer: status in the 'finished' message
    listed,             \* observer: jobs.list() was called
    model_retrievals,   \* observer: fine_tuned_model retrievals made
    put_count,          \* observer: HTTP PUT requests sent
    put_model,          \* observer: model name carried by the PUT
    calls_after_put,    \* observer: remote calls made after the PUT
    printed_http,       \* observer: HTTP status printed, 0: none yet
    poll_failed,        \* observer: a retrieval of the poll cell raised
    slept,              \* observer: seconds the latest time.sleep took, 0: none yet
    last_op             \* observer: latest call of the poll cell, "sleep" or "retrieve"

ftVars == <<pc, training_file_id, validation_file_id, job_id, status,
            fine_tuned_model, r, svc_files, svc_job, svc_job_id, job_status,
            first_status, last_returned, sleeps, poll_retrievals,
            retrieve_args, printed_status, listed, model_retrievals, put_count, put_model,
            calls_after_put, printed_http, poll_failed, slept, last_op>>

(***************************************************************************)
(* The cost-estimate cell of the fine-tuning notebook.                     *)
(***************************************************************************)
VARIABLES
    tok_pc,             \* next statement of the cost-estimate cell
    encoding,           \* the tokenizer: token count of every field value
    message,            \* loop variable: the conversation being counted
    returned,           \* value the last num_tokens_from_messages call returned
    num_tokens,         \* running total of the cell
    lines,              \* observer: conversations counted so far
    sum_returned,       \* observer: sum of the values returned so far
    num_epochs,
    total_cost

tokVars == <<tok_pc, encoding, message, returned, num_tokens, lines,
             sum_returned, num_epochs, total_cost>>

(***************************************************************************)
(* The evaluation notebook: the columns of test_df and observers.          *)
(***************************************************************************)
VARIABLES
    eval_pc,                    \* next statement of the evaluation notebook
    row,                        \* row the running progress_apply is at
    instruction,                \* columns of test_df, one entry per row
    cot_answer,
    baseline_model_response,
    finetuned_model_response,
    gold_final_answer,
    context,
    baseline_final_answer,
    finetuned_final_answer,
    calls,                      \* observer: inference calls made, in order
    raised,                     \* observer: the calls whose remote call raised
    question,                   \* column of test_df
    baseline_df,                \* rows of the baseline dataset
    finetuned_df,               \* rows of the fine-tuned dataset
    sent,                       \* observer: inference requests issued, in order
    in_flight                   \* observer: requests issued and not yet answered

evalVars == <<eval_pc, row, instruction, cot_answer, baseline_model_response,
              finetuned_model_response, gold_final_answer, context,
              baseline_final_answer, finetuned_final_answer, calls, raised,
              question, baseline_df, finetuned_df, sent, in_flight>>

(***************************************************************************)
(* extract_final_answer and extract_context applied to one input.          *)
(***************************************************************************)
VARIABLES
    ex_pc,              \* "call" before the call, "done" after it,
                        \* "twice" once the result has been cleaned again
    ex_input,           \* the argument
    ex_result,          \* the value returned
    ex_twice,           \* extract_final_answer of ex_result
    cx_pc,              \* "call" before extract_context is called, then "done"
    cx_result           \* what extract_context returned, or the exception

exVars == <<ex_pc, ex_input, ex_result, ex_twice, cx_pc, cx_result>>

notFt == <<tokVars, evalVars, exVars>>
notTok == <<ftVars, evalVars, exVars>>
notEval == <<ftVars, tokVars, exVars>>
notEx == <<ftVars, tokVars, evalVars>>

\* identifiers the service may hand out
FileIds == {"file-a", "file-b"}
JobIds == {"ftjob-1", "ftjob-2"}
\* response.status values of a fine-tuning job
Statuses == {"pending", "running", "succeeded", "failed", "cancelled"}
\* the list of the loop condition
Terminal == {"succeeded", "failed"}
\* HTTP status codes of the management API
HttpStatuses == {200, 201, 400, 500}
ModelName == "gpt-4o-mini.ft-1"

\* the service before it has received a job request
\* time.sleep(10)
PollInterval == 10

NoJob == [training_file |-> NULL, validation_file |-> NULL, model |-> NULL,
          seed |-> 0]

Bump(n) == IF n < MaxCount THEN n + 1 ELSE n

\* every remote call made once the PUT has been sent is counted
AfterPut == IF put_count > 0 THEN Bump(calls_after_put) ELSE calls_after_put

\* an exception that nothing catches ends the run
Abort ==
    /\ pc' = "aborted"
    /\ calls_after_put' = AfterPut

FtInit ==
    /\ pc = "upload_training"
    /\ training_file_id = NULL
    /\ validation_file_id = NULL
    /\ job_id = NULL
    /\ status = NULL
    /\ fine_tuned_model = NULL
    /\ r = 0
    /\ svc_files = <<>>
    /\ svc_job = NoJob
    /\ svc_job_id = NULL
    /\ job_status = NULL
    /\ first_status = NULL
    /\ last_returned = NULL
    /\ sleeps = 0
    /\ poll_retrievals = 0
    /\ retrieve_args = {}
    /\ printed_status = NULL
    /\ listed = FALSE
    /\ model_retrievals = 0
    /\ put_count = 0
    /\ put_model = NULL
    /\ calls_after_put = 0
    /\ printed_http = 0
    /\ poll_failed = FALSE
    /\ slept = 0
    /\ last_op = NULL

\* training_response = client.files.create(...); training_file_id = ....id
UploadTraining ==
    /\ pc = "upload_training"
    /\ \/ /\ \E id \in FileIds :
                /\ svc_files' = Append(svc_files, id)
                /\ training_file_id' = id
          /\ pc' = "upload_validation"
          /\ calls_after_put' = AfterPut
       \/ /\ Abort
          /\ UNCHANGED <<svc_files, training_file_id>>
    /\ UNCHANGED <<slept, last_op>>
    /\ UNCHANGED notFt
    /\ UNCHANGED last_returned
    /\ UNCHANGED <<validation_file_id, job_id, status, fine_tuned_model, r,
                   svc_job, svc_job_id, job_status, first_status, sleeps,
                   poll_retrievals, retrieve_args, printed_status, listed,
                   model_retrievals, put_count, put_model, printed_http,
                   poll_failed>>

\* validation_response = client.files.create(...); validation_file_id = ....id
UploadValidation ==
    /\ pc = "upload_validation"
    /\ \/ /\ \E id \in FileIds :
                /\ svc_files' = Append(svc_files, id)
                /\ validation_file_id' = id
          /\ pc' = "submit"
          /\ calls_after_put' = AfterPut
       \/ /\ Abort
          /\ UNCHANGED <<svc_files, validation_file_id>>
    /\ UNCHANGED <<slept, last_op>>
    /\ UNCHANGED notFt
    /\ UNCHANGED last_returned
    /\ UNCHANGED <<training_file_id, job_id, status, fine_tuned_model, r,
                   svc_job, svc_job_id, job_status, first_status, sleeps,
                   poll_retrievals, retrieve_args, printed_status, listed,
                   model_retrievals, put_count, put_model, printed_http,
                   poll_failed>>

\* a request with the two file identifiers exchanged
JobRequestSwapped ==
    [training_file |-> validation_file_id,
     validation_file |-> training_file_id,
     model |-> "gpt-4o-mini",
     seed |-> 105]

\* the request of client.fine_tuning.jobs.create
JobRequest ==
    [training_file |-> training_file_id,
     validation_file |-> validation_file_id,
     model |-> "gpt-4o-mini",
     seed |-> 105]

\* response = client.fine_tuning.jobs.create(...); job_id = response.id
SubmitJob ==
    /\ pc = "submit"
    /\ \/ /\ svc_job' = JobRequest
          /\ \E id \in JobIds :
                /\ svc_job_id' = id
                /\ job_id' = id
          /\ \E s \in Statuses : job_status' = s
          /\ pc' = "first_retrieve"
          /\ calls_after_put' = AfterPut
       \/ /\ Abort
          /\ UNCHANGED <<svc_job, svc_job_id, job_id, job_status>>
    /\ UNCHANGED <<slept, last_op>>
    /\ UNCHANGED notFt
    /\ UNCHANGED last_returned
    /\ UNCHANGED <<training_file_id, validation_file_id, status,
                   fine_tuned_model, r, svc_files, first_status, sleeps,
                   poll_retrievals, retrieve_args, printed_status, listed,
                   model_retrievals, put_count, put_model, printed_http,
                   poll_failed>>

\* the job advances at the service, whatever the notebook is doing
RemoteChange ==
    /\ svc_job_id # NULL
    /\ \E s \in Statuses \ {job_status} : job_status' = s
    /\ UNCHANGED <<slept, last_op>>
    /\ UNCHANGED notFt
    /\ UNCHANGED last_returned
    /\ UNCHANGED <<pc, training_file_id, validation_file_id, job_id, status,
                   fine_tuned_model, r, svc_files, svc_job, svc_job_id,
                   first_status, sleeps, poll_retrievals, retrieve_args,
                   printed_status, listed, model_retrievals, put_count,
                   put_model, calls_after_put, printed_http, poll_failed>>

\* response = client.fine_tuning.jobs.retrieve(job_id); status = response.status
FirstRetrieve ==
    /\ pc = "first_retrieve"
    /\ retrieve_args' = retrieve_args \cup {job_id}
    /\ \/ /\ status' = job_status
          /\ last_returned' = job_status
          /\ first_status' = job_status
          /\ pc' = "loop_test"
          /\ calls_after_put' = AfterPut
          /\ UNCHANGED poll_failed
       \/ /\ Abort
          /\ poll_failed' = TRUE
          /\ UNCHANGED <<status, first_status, last_returned>>
    /\ last_op' = "retrieve"
    /\ UNCHANGED slept
    /\ UNCHANGED notFt
    /\ UNCHANGED <<training_file_id, validation_file_id, job_id,
                   fine_tuned_model, r, svc_files, svc_job, svc_job_id,
                   job_status, sleeps, poll_retrievals, printed_status,
                   listed, model_retrievals, put_count, put_model,
                   printed_http>>

\* a loop that tests its condition only after the first pass (do ... while)
LoopTestDoWhile ==
    /\ pc = "loop_test"
    /\ pc' = IF status \notin Terminal \/ sleeps = 0
             THEN "sleep" ELSE "print_finished"
    /\ UNCHANGED <<slept, last_op>>
    /\ UNCHANGED notFt
    /\ UNCHANGED last_returned
    /\ UNCHANGED <<training_file_id, validation_file_id, job_id, status,
                   fine_tuned_model, r, svc_files, svc_job, svc_job_id,
                   job_status, first_status, sleeps, poll_retrievals,
                   retrieve_args, printed_status, listed, model_retrievals,
                   put_count, put_model, calls_after_put, printed_http,
                   poll_failed>>

\* a loop that stops on "succeeded" alone
LoopTestSucceededOnly ==
    /\ pc = "loop_test"
    /\ pc' = IF status # "succeeded" THEN "sleep" ELSE "print_finished"
    /\ UNCHANGED <<slept, last_op>>
    /\ UNCHANGED notFt
    /\ UNCHANGED last_returned
    /\ UNCHANGED <<training_file_id, validation_file_id, job_id, status,
                   fine_tuned_model, r, svc_files, svc_job, svc_job_id,
                   job_status, first_status, sleeps, poll_retrievals,
                   retrieve_args, printed_status, listed, model_retrievals,
                   put_count, put_model, calls_after_put, printed_http,
                   poll_failed>>

\* while status not in ["succeeded", "failed"]:
LoopTest ==
    /\ pc = "loop_test"
    /\ pc' = IF status \notin Terminal THEN "sleep" ELSE "print_finished"
    /\ UNCHANGED <<slept, last_op>>
    /\ UNCHANGED notFt
    /\ UNCHANGED last_returned
    /\ UNCHANGED <<training_file_id, validation_file_id, job_id, status,
                   fine_tuned_model, r, svc_files, svc_job, svc_job_id,
                   job_status, first_status, sleeps, poll_retrievals,
                   retrieve_args, printed_status, listed, model_retrievals,
                   put_count, put_model, calls_after_put, printed_http,
                   poll_failed>>

\* a sleep that doubles from one iteration to the next, up to a cap
SleepBackoff ==
    /\ pc = "sleep"
    /\ sleeps' = Bump(sleeps)
    /\ pc' = "poll_retrieve"
    /\ slept' = IF slept = 0 THEN PollInterval
              ELSE IF slept < 4 * PollInterval THEN 2 * slept ELSE slept
    /\ last_op' = "sleep"
    /\ UNCHANGED notFt
    /\ UNCHANGED last_returned
    /\ UNCHANGED <<training_file_id, validation_file_id, job_id, status,
                   fine_tuned_model, r, svc_files, svc_job, svc_job_id,
                   job_status, first_status, poll_retrievals, retrieve_args,
                   printed_status, listed, model_retrievals, put_count,
                   put_model, calls_after_put, printed_http, poll_failed>>

\* time.sleep(10)
Sleep ==
    /\ pc = "sleep"
    /\ sleeps' = Bump(sleeps)
    /\ pc' = "poll_retrieve"
    /\ slept' = PollInterval
    /\ last_op' = "sleep"
    /\ UNCHANGED notFt
    /\ UNCHANGED last_returned
    /\ UNCHANGED <<training_file_id, validation_file_id, job_id, status,
                   fine_tuned_model, r, svc_files, svc_job, svc_job_id,
                   job_status, first_status, poll_retrievals, retrieve_args,
                   printed_status, listed, model_retrievals, put_count,
                   put_model, calls_after_put, printed_http, poll_failed>>

\* a loop body that retrieves the job and leaves status as it was
PollRetrieveStale ==
    /\ pc = "poll_retrieve"
    /\ retrieve_args' = retrieve_args \cup {job_id}
    /\ poll_retrievals' = Bump(poll_retrievals)
    /\ \/ /\ UNCHANGED status
          /\ last_returned' = job_status
          /\ pc' = "loop_test"
          /\ calls_after_put' = AfterPut
          /\ UNCHANGED poll_failed
       \/ /\ Abort
          /\ poll_failed' = TRUE
          /\ UNCHANGED <<status, last_returned>>
    /\ last_op' = "retrieve"
    /\ UNCHANGED slept
    /\ UNCHANGED notFt
    /\ UNCHANGED <<training_file_id, validation_file_id, job_id,
                   fine_tuned_model, r, svc_files, svc_job, svc_job_id,
                   job_status, first_status, sleeps, printed_status, listed,
                   model_retrievals, put_count, put_model, printed_http>>

\* a loop body that catches the exception of the retrieval and goes on
PollRetrieveCatch ==
    /\ pc = "poll_retrieve"
    /\ retrieve_args' = retrieve_args \cup {job_id}
    /\ poll_retrievals' = Bump(poll_retrievals)
    /\ \/ /\ status' = job_status
          /\ last_returned' = job_status
          /\ pc' = "loop_test"
          /\ calls_after_put' = AfterPut
          /\ UNCHANGED poll_failed
       \/ /\ pc' = "loop_test"
          /\ calls_after_put' = AfterPut
          /\ poll_failed' = TRUE
          /\ UNCHANGED <<status, last_returned>>
    /\ last_op' = "retrieve"
    /\ UNCHANGED slept
    /\ UNCHANGED notFt
    /\ UNCHANGED <<training_file_id, validation_file_id, job_id,
                   fine_tuned_model, r, svc_files, svc_job, svc_job_id,
                   job_status, first_status, sleeps, printed_status, listed,
                   model_retrievals, put_count, put_model, printed_http>>

\* response = client.fine_tuning.jobs.retrieve(job_id) ... status = response.status
PollRetrieve ==
    /\ pc = "poll_retrieve"
    /\ retrieve_args' = retrieve_args \cup {job_id}
    /\ poll_retrievals' = Bump(poll_retrievals)
    /\ \/ /\ status' = job_status
          /\ last_returned' = job_status
          /\ pc' = "loop_test"
          /\ calls_after_put' = AfterPut
          /\ UNCHANGED poll_failed
       \/ /\ Abort
          /\ poll_failed' = TRUE
          /\ UNCHANGED <<status, last_returned>>
    /\ last_op' = "retrieve"
    /\ UNCHANGED slept
    /\ UNCHANGED notFt
    /\ UNCHANGED <<training_file_id, validation_file_id, job_id,
                   fine_tuned_model, r, svc_files, svc_job, svc_job_id,
                   job_status, first_status, sleeps, printed_status, listed,
                   model_retrievals, put_count, put_model, printed_http>>

\* print(f'Fine-tuning job {job_id} finished with status: {status}')
PrintFinished ==
    /\ pc = "print_finished"
    /\ printed_status' = status
    /\ pc' = "list_jobs"
    /\ UNCHANGED <<slept, last_op>>
    /\ UNCHANGED notFt
    /\ UNCHANGED last_returned
    /\ UNCHANGED <<training_file_id, validation_file_id, job_id, status,
                   fine_tuned_model, r, svc_files, svc_job, svc_job_id,
                   job_status, first_status, sleeps, poll_retrievals,
                   retrieve_args, listed, model_retrievals, put_count,
                   put_model, calls_after_put, printed_http, poll_failed>>

\* response = client.fine_tuning.jobs.list()
ListJobs ==
    /\ pc = "list_jobs"
    /\ \/ /\ listed' = TRUE
          /\ pc' = "retrieve_model"
          /\ calls_after_put' = AfterPut
       \/ /\ Abort
          /\ UNCHANGED listed
    /\ UNCHANGED <<slept, last_op>>
    /\ UNCHANGED notFt
    /\ UNCHANGED last_returned
    /\ UNCHANGED <<training_file_id, validation_file_id, job_id, status,
                   fine_tuned_model, r, svc_files, svc_job, svc_job_id,
                   job_status, first_status, sleeps, poll_retrievals,
                   retrieve_args, printed_status, model_retrievals,
                   put_count, put_model, printed_http, poll_failed>>

\* the fine_tuned_model field of a job: set once the job has succeeded
ServiceModel == IF job_status = "succeeded" THEN ModelName ELSE NULL

\* response = client.fine_tuning.jobs.retrieve(job_id)
\* fine_tuned_model = response.fine_tuned_model
RetrieveModel ==
    /\ pc = "retrieve_model"
    /\ retrieve_args' = retrieve_args \cup {job_id}
    /\ \/ /\ fine_tuned_model' = ServiceModel
          /\ model_retrievals' = Bump(model_retrievals)
          /\ pc' = "deploy"
          /\ calls_after_put' = AfterPut
       \/ /\ Abort
          /\ UNCHANGED <<fine_tuned_model, model_retrievals>>
    /\ UNCHANGED <<slept, last_op>>
    /\ UNCHANGED notFt
    /\ UNCHANGED last_returned
    /\ UNCHANGED <<training_file_id, validation_file_id, job_id, status, r,
                   svc_files, svc_job, svc_job_id, job_status, first_status,
                   sleeps, poll_retrievals, printed_status, listed,
                   put_count, put_model, printed_http, poll_failed>>

\* a deployment step that sends the request again after a non-success status
DeployRetry ==
    /\ pc = "deploy"
    /\ put_count' = Bump(put_count)
    /\ put_model' = fine_tuned_model
    /\ calls_after_put' = AfterPut
    /\ \E code \in HttpStatuses :
          /\ r' = code
          /\ pc' = IF code >= 400 /\ put_count = 0 THEN "deploy"
                   ELSE "print_result"
    /\ UNCHANGED <<slept, last_op>>
    /\ UNCHANGED notFt
    /\ UNCHANGED last_returned
    /\ UNCHANGED <<training_file_id, validation_file_id, job_id, status,
                   fine_tuned_model, svc_files, svc_job, svc_job_id,
                   job_status, first_status, sleeps, poll_retrievals,
                   retrieve_args, printed_status, listed, model_retrievals,
                   printed_http, poll_failed>>

\* a deployment step that sends the request for a succeeded job only
DeployGated ==
    /\ pc = "deploy"
    /\ IF printed_status = "succeeded"
       THEN /\ put_count' = Bump(put_count)
            /\ put_model' = fine_tuned_model
            /\ calls_after_put' = AfterPut
            /\ \/ /\ \E code \in HttpStatuses : r' = code
                  /\ pc' = "print_result"
               \/ /\ pc' = "aborted"
                  /\ UNCHANGED r
       ELSE /\ pc' = "print_result"
            /\ UNCHANGED <<put_count, put_model, calls_after_put, r>>
    /\ UNCHANGED <<slept, last_op>>
    /\ UNCHANGED notFt
    /\ UNCHANGED last_returned
    /\ UNCHANGED <<training_file_id, validation_file_id, job_id, status,
                   fine_tuned_model, svc_files, svc_job, svc_job_id,
                   job_status, first_status, sleeps, poll_retrievals,
                   retrieve_args, printed_status, listed, model_retrievals,
                   printed_http, poll_failed>>

\* r = requests.put(request_url, params=..., headers=..., data=deploy_data)
Deploy ==
    /\ pc = "deploy"
    /\ put_count' = Bump(put_count)
    /\ put_model' = fine_tuned_model
    /\ calls_after_put' = AfterPut
    /\ \/ /\ \E code \in HttpStatuses : r' = code
          /\ pc' = "print_result"
       \/ /\ pc' = "aborted"
          /\ UNCHANGED r
    /\ UNCHANGED <<slept, last_op>>
    /\ UNCHANGED notFt
    /\ UNCHANGED last_returned
    /\ UNCHANGED <<training_file_id, validation_file_id, job_id, status,
                   fine_tuned_model, svc_files, svc_job, svc_job_id,
                   job_status, first_status, sleeps, poll_retrievals,
                   retrieve_args, printed_status, listed, model_retrievals,
                   printed_http, poll_failed>>

\* print(r); print(r.reason); print(r.json())
PrintResult ==
    /\ pc = "print_result"
    /\ printed_http' = r
    /\ pc' = "done"
    /\ UNCHANGED <<slept, last_op>>
    /\ UNCHANGED notFt
    /\ UNCHANGED last_returned
    /\ UNCHANGED <<training_file_id, validation_file_id, job_id, status,
                   fine_tuned_model, r, svc_files, svc_job, svc_job_id,
                   job_status, first_status, sleeps, poll_retrievals,
                   retrieve_args, printed_status, listed, model_retrievals,
                   put_count, put_model, calls_after_put, poll_failed>>

\* the statements of the notebook, in the order of its cells
FtStep ==
    \/ UploadTraining
    \/ UploadValidation
    \/ SubmitJob
    \/ FirstRetrieve
    \/ LoopTest
    \/ Sleep
    \/ PollRetrieve
    \/ PrintFinished
    \/ ListJobs
    \/ RetrieveModel
    \/ Deploy
    \/ PrintResult

(***************************************************************************)
(* Python strings and the two clean-up functions of the evaluation         *)
(* notebook.  None is a sequence that is no string: "None" is no character.*)
(***************************************************************************)
None == <<"None">>

\* the literal "<ANSWER>: "
MARKER == <<"<", "A", "N", "S", "W", "E", "R", ">", ":", " ">>
\* the literal "\n"
NEWLINE == <<"\n">>

\* s[i:i+len(sep)] == sep
OccursAt(s, sep, i) ==
    /\ i >= 1
    /\ i + Len(sep) - 1 <= Len(s)
    /\ SubSeq(s, i, i + Len(sep) - 1) = sep

\* s.find(sep) counted from 1, 0 when sep does not occur
Find(s, sep) ==
    LET hits == {i \in 1..Len(s) : OccursAt(s, sep, i)}
    IN IF hits = {} THEN 0
       ELSE CHOOSE i \in hits : \A j \in hits : i <= j

RECURSIVE Split(_, _)
\* s.split(sep): the pieces between the occurrences found from the left
Split(s, sep) ==
    LET i == Find(s, sep)
    IN IF i = 0 THEN <<s>>
       ELSE <<SubSeq(s, 1, i - 1)>> \o Split(SubSeq(s, i + Len(sep), Len(s)), sep)

RECURSIVE Join(_, _)
\* sep.join(parts)
Join(parts, sep) ==
    IF Len(parts) = 0 THEN <<>>
    ELSE IF Len(parts) = 1 THEN parts[1]
    ELSE parts[1] \o sep \o Join(Tail(parts), sep)

\* bool(x) of a string or None
Truthy(x) == x # None /\ x # <<>>

\* a clean-up that keeps what follows the first marker: split(..., 1)[-1]
extract_final_answer_first(answer) ==
    IF Truthy(answer)
    THEN LET i == Find(answer, MARKER)
         IN IF i = 0 THEN answer
            ELSE SubSeq(answer, i + Len(MARKER), Len(answer))
    ELSE None

\* a clean-up that tests for None only: if cot_answer is not None
extract_final_answer_not_none(answer) ==
    IF answer # None
    THEN LET parts == Split(answer, MARKER) IN parts[Len(parts)]
    ELSE None

\* if cot_answer: return cot_answer.split("<ANSWER>: ")[-1]; return None
extract_final_answer(answer) ==
    IF Truthy(answer)
    THEN LET parts == Split(answer, MARKER) IN parts[Len(parts)]
    ELSE None

\* None has no split method: the call raises, and this is what it comes to
AttributeError == <<"AttributeError">>

\* a context that drops the first line instead of the last: split("\n")[1:]
extract_context_tail(instr) ==
    IF instr = None THEN AttributeError
    ELSE LET parts == Split(instr, NEWLINE)
         IN Join(SubSeq(parts, 2, Len(parts)), NEWLINE)

\* a context that is None for None and for the empty string
extract_context_guarded(instr) ==
    IF ~Truthy(instr) THEN None
    ELSE LET parts == Split(instr, NEWLINE)
         IN Join(SubSeq(parts, 1, Len(parts) - 1), NEWLINE)

\* return "\n".join(instruction.split("\n")[:-1])
extract_context(instr) ==
    IF instr = None THEN AttributeError
    ELSE LET parts == Split(instr, NEWLINE)
         IN Join(SubSeq(parts, 1, Len(parts) - 1), NEWLINE)

(***************************************************************************)
(* The two clean-up functions on their own: the inputs are None and every  *)
(* concatenation of at most MaxPieces pieces.                              *)
(***************************************************************************)
MaxPieces == 3

Pieces ==
    { MARKER,
      <<"<", "A", "N", "S", "W", "E", "R", ">", ":">>,
      <<" ">>,
      <<"<">>,
      <<"4", "2">>,
      <<"n", "o">>,
      NEWLINE }

RECURSIVE Concats(_)
Concats(n) ==
    IF n = 0 THEN {<<>>}
    ELSE LET shorter == Concats(n - 1)
         IN shorter \cup {s \o p : s \in shorter, p \in Pieces}

ExInit ==
    /\ ex_pc = "call"
    /\ ex_input \in Concats(MaxPieces) \cup {None}
    /\ ex_result = None
    /\ ex_twice = None
    /\ cx_pc = "call"
    /\ cx_result = None

ExIdle ==
    /\ ex_pc = "idle"
    /\ ex_input = None
    /\ ex_result = None
    /\ ex_twice = None
    /\ cx_pc = "idle"
    /\ cx_result = None

\* test_df[...] = column.apply(extract_final_answer), one element
ExtractFinalAnswer ==
    /\ ex_pc = "call"
    /\ ex_result' = extract_final_answer(ex_input)
    /\ ex_pc' = "done"
    /\ UNCHANGED <<ex_input, ex_twice, cx_pc, cx_result>>
    /\ UNCHANGED notEx

\* extract_final_answer applied to its own result
ExtractAgain ==
    /\ ex_pc = "done"
    /\ ex_twice' = extract_final_answer(ex_result)
    /\ ex_pc' = "twice"
    /\ UNCHANGED <<ex_input, ex_result, cx_pc, cx_result>>
    /\ UNCHANGED notEx

\* test_df['context'] = column.apply(extract_context), one element
ExtractContext ==
    /\ cx_pc = "call"
    /\ cx_result' = extract_context(ex_input)
    /\ cx_pc' = "done"
    /\ UNCHANGED <<ex_pc, ex_input, ex_result, ex_twice>>
    /\ UNCHANGED notEx

(***************************************************************************)
(* The cost-estimate cell.  A message is the sequence of its (key, value)  *)
(* items in the order message.items() yields them; its keys are distinct.  *)
(***************************************************************************)
MaxMsgs == 2
MaxLines == 2
MaxTokLen == 2
MaxTokens == 12
MaxEpochs == 6
MaxFactor == 5

\* defaults of the parameters of num_tokens_from_messages
tokens_per_message == 3
tokens_per_name == 1

Values == {"a", "b"}

\* the tokenizers: len(encoding.encode(value)) for every value
Tokenizers == [Values -> 0..MaxTokLen]

MessagePool ==
    { << <<"role", "a">>, <<"content", "b">> >>,
      << <<"content", "a">> >>,
      << <<"role", "b">>, <<"name", "b">>, <<"content", "a">> >> }

RECURSIVE SeqsUpTo(_, _)
SeqsUpTo(S, n) ==
    IF n = 0 THEN {<<>>}
    ELSE LET shorter == SeqsUpTo(S, n - 1)
         IN shorter \cup {Append(s, x) : s \in shorter, x \in S}

Conversations == SeqsUpTo(MessagePool, MaxMsgs)

RECURSIVE ItemTokensName(_)
\* the inner loop with the extra token charged for the key "name"
ItemTokensName(items) ==
    IF items = <<>> THEN 0
    ELSE encoding[Head(items)[2]]
         + (IF Head(items)[1] = "name" THEN tokens_per_name ELSE 0)
         + ItemTokensName(Tail(items))

RECURSIVE ItemTokens(_)
\* for key, value in message.items(): num_tokens += len(encoding.encode(value));
\* if key == "role": num_tokens += tokens_per_name
ItemTokens(items) ==
    IF items = <<>> THEN 0
    ELSE encoding[Head(items)[2]]
         + (IF Head(items)[1] = "role" THEN tokens_per_name ELSE 0)
         + ItemTokens(Tail(items))

RECURSIVE MessagesTokens(_)
\* for message in messages: num_tokens += tokens_per_message; inner loop
MessagesTokens(messages) ==
    IF messages = <<>> THEN 0
    ELSE tokens_per_message + ItemTokens(Head(messages))
         + MessagesTokens(Tail(messages))

\* the loops, then num_tokens += 3; return num_tokens
num_tokens_from_messages(messages) == MessagesTokens(messages) + 3

(***************************************************************************)
(* Python floats are IEEE binary64.  A float is zero or a significand of   *)
(* Precision bits, least significant first, and the exponent of its last   *)
(* bit; products are exact and then rounded to nearest, ties to even.      *)
(***************************************************************************)
Precision == 53

FZero == [m |-> <<>>, e |-> 0]

RECURSIVE NatBits(_)
\* the bits of a natural number, least significant first
NatBits(n) == IF n = 0 THEN <<>> ELSE <<n % 2>> \o NatBits(n \div 2)

RECURSIVE MulCarry(_, _, _)
\* the bits of bits * n + carry
MulCarry(bits, n, carry) ==
    IF bits = <<>> THEN NatBits(carry)
    ELSE LET v == Head(bits) * n + carry
         IN <<v % 2>> \o MulCarry(Tail(bits), n, v \div 2)

Zeros(n) == [i \in 1..n |-> 0]

\* the float nearest to bits * 2^e, ties to even
Round(bits, e) ==
    LET L == Len(bits)
        d == L - Precision
    IN IF d <= 0 THEN [m |-> Zeros(-d) \o bits, e |-> e + d]
       ELSE LET kept == SubSeq(bits, d + 1, L)
                guard == bits[d]
                sticky == \E i \in 1..(d - 1) : bits[i] = 1
                up == guard = 1 /\ (sticky \/ kept[1] = 1)
                inc == MulCarry(kept, 1, 1)
            IN IF ~up THEN [m |-> kept, e |-> e + d]
               ELSE IF Len(inc) > Precision
                    THEN [m |-> SubSeq(inc, 2, Precision + 1), e |-> e + d + 1]
                    ELSE [m |-> inc, e |-> e + d]

\* x * n for a float x and an int n (n converts to a float exactly)
FMulInt(x, n) ==
    IF n = 0 \/ x = FZero THEN FZero
    ELSE Round(MulCarry(x.m, n, 0), x.e)

RECURSIVE HexBits(_)
\* the bits of a number given by its hexadecimal digits, first digit first
HexBits(digits) ==
    IF digits = <<>> THEN <<>>
    ELSE LET h == digits[Len(digits)]
         IN <<h % 2, (h \div 2) % 2, (h \div 4) % 2, (h \div 8) % 2>>
            \o HexBits(SubSeq(digits, 1, Len(digits) - 1))

\* training_cost_per_token = 0.003300 / 1000, the float 0x1.baeb22f9294c3p-19
training_cost_per_token ==
    [m |-> SubSeq(HexBits(<<1, 11, 10, 14, 11, 2, 2, 15, 9, 2, 9, 4, 12, 3>>),
                  1, Precision),
     e |-> -71]

\* an estimate that counts one epoch too many
TotalCostOffByOne(tokens, epochs) ==
    FMulInt(FMulInt(training_cost_per_token, tokens), epochs + 1)

\* total_cost = num_tokens * training_cost_per_token * num_epochs
TotalCost(tokens, epochs) ==
    FMulInt(FMulInt(training_cost_per_token, tokens), epochs)

\* the cell before its loop, reading a file whose lines are yet to come
TokInit ==
    /\ tok_pc = "count"
    /\ encoding \in Tokenizers
    /\ message = <<>>
    /\ returned = 0
    /\ num_tokens = 0
    /\ lines = 0
    /\ sum_returned = 0
    /\ num_epochs = 3
    /\ total_cost = FZero

\* the cell at the cost formula, for any token total and epoch count
CostInit ==
    /\ tok_pc = "estimate"
    /\ encoding = [v \in Values |-> 0]
    /\ message = <<>>
    /\ returned = 0
    /\ num_tokens \in 0..MaxTokens
    /\ lines = 0
    /\ sum_returned = 0
    /\ num_epochs \in 1..MaxEpochs
    /\ total_cost = FZero

TokIdle ==
    /\ tok_pc = "idle"
    /\ encoding = [v \in Values |-> 0]
    /\ message = <<>>
    /\ returned = 0
    /\ num_tokens = 0
    /\ lines = 0
    /\ sum_returned = 0
    /\ num_epochs = 3
    /\ total_cost = FZero

\* for message in messages: num_tokens += num_tokens_from_messages(message)
CountLine ==
    /\ tok_pc = "count"
    /\ lines < MaxLines
    /\ \E conversation \in Conversations :
          /\ message' = conversation
          /\ returned' = num_tokens_from_messages(conversation)
          /\ num_tokens' = num_tokens + num_tokens_from_messages(conversation)
          /\ sum_returned' = sum_returned + num_tokens_from_messages(conversation)
    /\ lines' = lines + 1
    /\ UNCHANGED <<tok_pc, encoding, num_epochs, total_cost>>
    /\ UNCHANGED notTok

\* the loop is over: print(f"Number of tokens in training data: {num_tokens}")
EndOfFile ==
    /\ tok_pc = "count"
    /\ tok_pc' = "estimate"
    /\ UNCHANGED <<encoding, message, returned, num_tokens, lines,
                   sum_returned, num_epochs, total_cost>>
    /\ UNCHANGED notTok

\* total_cost = num_tokens * training_cost_per_token * num_epochs
EstimateCost ==
    /\ tok_pc = "estimate"
    /\ total_cost' = TotalCost(num_tokens, num_epochs)
    /\ tok_pc' = "done"
    /\ UNCHANGED <<encoding, message, returned, num_tokens, lines,
                   sum_returned, num_epochs>>
    /\ UNCHANGED notTok

(***************************************************************************)
(* The evaluation notebook: inference over the test set with both models,  *)
(* then the clean-up cell.                                                 *)
(***************************************************************************)
MaxRows == 2

\* the rows a test set is made of: instruction, cot_answer and question
TestRows ==
    { [instruction |-> <<"d", "1", "\n", "d", "2", "\n", "q", "?">>,
       cot_answer |-> <<"r">> \o MARKER \o <<"7">>,
       question |-> <<"q", "?">>],
      [instruction |-> <<"q", "?">>,
       cot_answer |-> <<"7">>,
       question |-> <<"q", "?">>] }

\* response.choices[0].message.content of a call that returns
Contents ==
    { <<>>,
      <<"o", "k">>,
      <<"r">> \o MARKER \o <<"4", "2">> }

\* the remote call raising, which is no content
Raises == <<"raise">>

Outcomes == Contents \cup {Raises}

\* try: response = client.chat.completions.create(...)
\*      return response.choices[0].message.content
\* except Exception as e: print(e); return None
get_model_completions(outcome) ==
    IF outcome = Raises THEN None ELSE outcome

EvalInit ==
    /\ eval_pc = "baseline"
    /\ row = 1
    /\ \E n \in 1..MaxRows : \E rows \in [1..n -> TestRows] :
          /\ instruction = [i \in 1..n |-> rows[i].instruction]
          /\ cot_answer = [i \in 1..n |-> rows[i].cot_answer]
          /\ question = [i \in 1..n |-> rows[i].question]
    /\ baseline_model_response = <<>>
    /\ finetuned_model_response = <<>>
    /\ gold_final_answer = <<>>
    /\ context = <<>>
    /\ baseline_final_answer = <<>>
    /\ finetuned_final_answer = <<>>
    /\ calls = <<>>
    /\ raised = {}
    /\ baseline_df = <<>>
    /\ finetuned_df = <<>>
    /\ sent = <<>>
    /\ in_flight = <<>>

EvalIdle ==
    /\ eval_pc = "idle"
    /\ row = 1
    /\ instruction = <<>>
    /\ cot_answer = <<>>
    /\ baseline_model_response = <<>>
    /\ finetuned_model_response = <<>>
    /\ gold_final_answer = <<>>
    /\ context = <<>>
    /\ baseline_final_answer = <<>>
    /\ finetuned_final_answer = <<>>
    /\ calls = <<>>
    /\ raised = {}
    /\ question = <<>>
    /\ baseline_df = <<>>
    /\ finetuned_df = <<>>
    /\ sent = <<>>
    /\ in_flight = <<>>

\* the call progress_apply makes for the row it is at
Call(model, outcome) ==
    [model |-> model, row |-> row, prompt |-> instruction[row],
     outcome |-> outcome]

\* the request of the call progress_apply makes for the row it is at
Request(model) == [model |-> model, row |-> row]

\* in_flight without the request the answer is for
Answered(model) ==
    SelectSeq(in_flight, LAMBDA q : q # Request(model))

\* client.chat.completions.create(...) of the baseline model, the request
\* going out: get_model_completions blocks until it is answered
SendBaseline ==
    /\ eval_pc = "baseline"
    /\ sent' = Append(sent, Request("baseline"))
    /\ in_flight' = Append(in_flight, Request("baseline"))
    /\ eval_pc' = "baseline_wait"
    /\ UNCHANGED <<row, instruction, cot_answer, question,
                   baseline_model_response, finetuned_model_response,
                   gold_final_answer, context, baseline_final_answer,
                   finetuned_final_answer, calls, raised, baseline_df,
                   finetuned_df>>
    /\ UNCHANGED notEval

\* the same for the fine-tuned model
SendFinetuned ==
    /\ eval_pc = "finetuned"
    /\ sent' = Append(sent, Request("finetuned"))
    /\ in_flight' = Append(in_flight, Request("finetuned"))
    /\ eval_pc' = "finetuned_wait"
    /\ UNCHANGED <<row, instruction, cot_answer, question,
                   baseline_model_response, finetuned_model_response,
                   gold_final_answer, context, baseline_final_answer,
                   finetuned_final_answer, calls, raised, baseline_df,
                   finetuned_df>>
    /\ UNCHANGED notEval

\* a progress_apply over the baseline model that an exception ends
InferBaselineUncaught ==
    /\ eval_pc = "baseline_wait"
    /\ \E outcome \in Outcomes :
          /\ calls' = Append(calls, Call("baseline", outcome))
          /\ IF outcome = Raises
             THEN /\ raised' = raised \cup {<<"baseline", row>>}
                  /\ eval_pc' = "aborted"
                  /\ UNCHANGED <<baseline_model_response, row>>
             ELSE /\ baseline_model_response' =
                        Append(baseline_model_response, outcome)
                  /\ UNCHANGED raised
                  /\ IF row < Len(instruction)
                     THEN row' = row + 1 /\ eval_pc' = "baseline"
                     ELSE row' = 1 /\ eval_pc' = "finetuned"
    /\ in_flight' = Answered("baseline")
    /\ UNCHANGED <<instruction, cot_answer, question,
                   finetuned_model_response, gold_final_answer, context,
                   baseline_final_answer, finetuned_final_answer,
                   baseline_df, finetuned_df, sent>>
    /\ UNCHANGED notEval

\* a progress_apply over the baseline model that asks again for a row whose
\* call raised
InferBaselineRetry ==
    /\ eval_pc = "baseline_wait"
    /\ \E outcome \in Outcomes :
          /\ calls' = Append(calls, Call("baseline", outcome))
          /\ IF outcome = Raises
             THEN /\ raised' = raised \cup {<<"baseline", row>>}
                  /\ eval_pc' = "baseline"
                  /\ UNCHANGED <<baseline_model_response, row>>
             ELSE /\ baseline_model_response' =
                        Append(baseline_model_response, outcome)
                  /\ UNCHANGED raised
                  /\ IF row < Len(instruction)
                     THEN row' = row + 1 /\ eval_pc' = "baseline"
                     ELSE row' = 1 /\ eval_pc' = "finetuned"
    /\ in_flight' = Answered("baseline")
    /\ UNCHANGED <<instruction, cot_answer, question,
                   finetuned_model_response, gold_final_answer, context,
                   baseline_final_answer, finetuned_final_answer,
                   baseline_df, finetuned_df, sent>>
    /\ UNCHANGED notEval

\* test_df['baseline_model_response'] = test_df.progress_apply(
\*     lambda x: get_model_completions(baseline_client, x.instruction, ...), axis=1)
\* one row of it, from the answer of the remote call on
InferBaseline ==
    /\ eval_pc = "baseline_wait"
    /\ \E outcome \in Outcomes :
          /\ calls' = Append(calls, Call("baseline", outcome))
          /\ raised' = IF outcome = Raises
                       THEN raised \cup {<<"baseline", row>>} ELSE raised
          /\ baseline_model_response' =
                Append(baseline_model_response, get_model_completions(outcome))
    /\ in_flight' = Answered("baseline")
    /\ IF row < Len(instruction)
       THEN row' = row + 1 /\ eval_pc' = "baseline"
       ELSE row' = 1 /\ eval_pc' = "finetuned"
    /\ UNCHANGED <<instruction, cot_answer, question,
                   finetuned_model_response, gold_final_answer, context,
                   baseline_final_answer, finetuned_final_answer,
                   baseline_df, finetuned_df, sent>>
    /\ UNCHANGED notEval

\* test_df['finetuned_model_response'] = test_df.progress_apply(
\*     lambda x: get_model_completions(finetuned_client, x.instruction, ...), axis=1)
\* one row of it, from the answer of the remote call on
InferFinetuned ==
    /\ eval_pc = "finetuned_wait"
    /\ \E outcome \in Outcomes :
          /\ calls' = Append(calls, Call("finetuned", outcome))
          /\ raised' = IF outcome = Raises
                       THEN raised \cup {<<"finetuned", row>>} ELSE raised
          /\ finetuned_model_response' =
                Append(finetuned_model_response, get_model_completions(outcome))
    /\ in_flight' = Answered("finetuned")
    /\ IF row < Len(instruction)
       THEN row' = row + 1 /\ eval_pc' = "finetuned"
       ELSE row' = 1 /\ eval_pc' = "clean"
    /\ UNCHANGED <<instruction, cot_answer, question,
                   baseline_model_response, gold_final_answer, context,
                   baseline_final_answer, finetuned_final_answer,
                   baseline_df, finetuned_df, sent>>
    /\ UNCHANGED notEval

\* the clean-up cell: column.apply(f) for gold_final_answer, context and the
\* two final answers
Clean ==
    /\ eval_pc = "clean"
    /\ gold_final_answer' =
          [i \in 1..Len(cot_answer) |-> extract_final_answer(cot_answer[i])]
    /\ context' =
          [i \in 1..Len(instruction) |-> extract_context(instruction[i])]
    /\ baseline_final_answer' =
          [i \in 1..Len(baseline_model_response) |->
              extract_final_answer(baseline_model_response[i])]
    /\ finetuned_final_answer' =
          [i \in 1..Len(finetuned_model_response) |->
              extract_final_answer(finetuned_model_response[i])]
    /\ eval_pc' = "cleaned"
    /\ UNCHANGED <<row, instruction, cot_answer, question,
                   baseline_model_response, finetuned_model_response, calls,
                   raised, baseline_df, finetuned_df, sent, in_flight>>
    /\ UNCHANGED notEval

\* a contexts column that wraps every context: lambda x: [x]
contexts_always(x) == <<x>>

\* baseline_df['contexts'].apply(lambda x: [x] if x else [])
contexts(x) == IF Truthy(x) THEN <<x>> ELSE <<>>

\* test_df[[answer column, 'context', 'gold_final_answer', 'question']] with
\* the columns renamed and the contexts wrapped
DatasetOf(final_answer) ==
    [i \in 1..Len(instruction) |->
        [answer |-> final_answer[i],
         contexts |-> contexts(context[i]),
         ground_truth |-> gold_final_answer[i],
         question |-> question[i]]]

\* baseline_df = test_df[[...]]; rename; contexts; Dataset.from_pandas
BuildBaselineDataset ==
    /\ eval_pc = "cleaned"
    /\ baseline_df' = DatasetOf(baseline_final_answer)
    /\ eval_pc' = "baseline_dataset"
    /\ UNCHANGED <<row, instruction, cot_answer, question,
                   baseline_model_response, finetuned_model_response,
                   gold_final_answer, context, baseline_final_answer,
                   finetuned_final_answer, calls, raised, finetuned_df, sent,
                   in_flight>>
    /\ UNCHANGED notEval

\* finetuned_df = test_df[[...]]; rename; contexts; Dataset.from_pandas
BuildFinetunedDataset ==
    /\ eval_pc = "baseline_dataset"
    /\ finetuned_df' = DatasetOf(finetuned_final_answer)
    /\ eval_pc' = "datasets"
    /\ UNCHANGED <<row, instruction, cot_answer, question,
                   baseline_model_response, finetuned_model_response,
                   gold_final_answer, context, baseline_final_answer,
                   finetuned_final_answer, calls, raised, baseline_df, sent,
                   in_flight>>
    /\ UNCHANGED notEval

(***************************************************************************)
(* The specifications.                                                     *)
(***************************************************************************)
vars == <<ftVars, tokVars, evalVars, exVars>>

\* the fine-tuning notebook from its upload cell on
Init == FtInit /\ TokIdle /\ EvalIdle /\ ExIdle

Next ==
    \/ UploadTraining
    \/ UploadValidation
    \/ SubmitJob
    \/ RemoteChange
    \/ FirstRetrieve
    \/ LoopTest
    \/ Sleep
    \/ PollRetrieve
    \/ PrintFinished
    \/ ListJobs
    \/ RetrieveModel
    \/ Deploy
    \/ PrintResult

Spec == Init /\ [][Next]_vars

\* the notebook runs statement after statement: an enabled statement is taken
FairSpec == Spec /\ WF_vars(FtStep)

\* the cost-estimate cell over a training file
TokenInit == TokInit /\ FtInit /\ EvalIdle /\ ExIdle

TokenNext ==
    \/ CountLine
    \/ EndOfFile
    \/ EstimateCost

TokenSpec == TokenInit /\ [][TokenNext]_vars

\* the cost formula over token totals and epoch counts
CostSpecInit == CostInit /\ FtInit /\ EvalIdle /\ ExIdle

CostNext == EstimateCost

CostSpec == CostSpecInit /\ [][CostNext]_vars

\* the evaluation notebook over a test set
EvalSpecInit == EvalInit /\ FtInit /\ TokIdle /\ ExIdle

EvalNext ==
    \/ SendBaseline
    \/ InferBaseline
    \/ SendFinetuned
    \/ InferFinetuned
    \/ Clean
    \/ BuildBaselineDataset
    \/ BuildFinetunedDataset

EvalSpec == EvalSpecInit /\ [][EvalNext]_vars

\* the two clean-up functions over their inputs
ExtractInit == ExInit /\ FtInit /\ TokIdle /\ EvalIdle

ExtractNext ==
    \/ ExtractFinalAnswer
    \/ ExtractAgain
    \/ ExtractContext

ExtractSpec == ExtractInit /\ [][ExtractNext]_vars

(***************************************************************************)
(* The poll loop.                                                          *)
(***************************************************************************)
\* the statements after the loop
AfterLoop ==
    {"print_finished", "list_jobs", "retrieve_model", "deploy",
     "print_result", "done"}

\* the statements of the loop body
LoopBody == {"sleep", "poll_retrieve"}

\* C1: when the first retrieval of the job returns succeeded or failed, the
\* loop body is never entered: the run makes no sleep and no retrieval of the
\* loop, neither before the 'finished' message nor after it.
C1_NoPollWhenDone ==
    first_status \in Terminal =>
        /\ sleeps = 0
        /\ poll_retrievals = 0
        /\ pc \notin LoopBody

C1_Witness == first_status \in Terminal /\ printed_status # NULL

\* C2: the loop is left only with the latest retrieved status in
\* {succeeded, failed}; once a retrieval has returned such a status the run is
\* never again at the sleep or at the retrieval of the loop; and the 'finished'
\* message carries that terminal status.
C2_ExitOnlyOnTerminal ==
    /\ pc \in AfterLoop =>
          /\ last_returned \in Terminal
          /\ status = last_returned
    /\ last_returned \in Terminal => pc \notin LoopBody
    /\ printed_status # NULL =>
          /\ printed_status \in Terminal
          /\ printed_status = last_returned

C2_Witness == printed_status \in Terminal /\ sleeps >= 2

\* C3: if no retrieval fails and the job's status at the service is at last
\* succeeded or failed for good, a run that reaches the loop reaches the
\* 'finished' message; if the status is never succeeded or failed, the run
\* sleeps again and again for ever and never prints the message: nothing but
\* the job ends the loop.
C3_PollingEndsWithTheJob ==
    /\ (<>[](job_status \in Terminal) /\ []~poll_failed
            /\ <>(pc = "first_retrieve"))
          => <>(pc = "print_finished")
    /\ ([](job_status \notin Terminal) /\ []~poll_failed
            /\ <>(pc = "first_retrieve"))
          => ([]<>(pc = "sleep") /\ [](printed_status = NULL))

C3_Witness == printed_status # NULL /\ sleeps = MaxCount

\* C5: once a retrieval of the poll cell has raised, the run is over: it is
\* aborted, it sleeps and retrieves no more, the 'finished' message is not
\* printed, and no job listing, fine_tuned_model retrieval or deployment
\* request is issued.
C5_PollFailureFatal ==
    /\ [](poll_failed =>
            /\ pc = "aborted"
            /\ printed_status = NULL
            /\ ~listed
            /\ model_retrievals = 0
            /\ put_count = 0)
    /\ [][poll_failed =>
            UNCHANGED <<pc, status, sleeps, poll_retrievals, retrieve_args,
                        printed_status, listed, model_retrievals,
                        put_count>>]_vars

C5_Witness == poll_failed /\ sleeps >= 1 /\ pc = "aborted"

(***************************************************************************)
(* The deployment request and the order of the remote operations.          *)
(***************************************************************************)
\* C6: a run sends at most one HTTP PUT, and exactly one once the deployment
\* statement has run; whatever status came back is printed as it is, and no
\* remote call of any kind follows the PUT (no retry, no rollback).
C6_OnePut ==
    /\ put_count <= 1
    /\ pc \in {"print_result", "done"} => put_count = 1
    /\ calls_after_put = 0
    /\ pc = "done" =>
          /\ r \in HttpStatuses
          /\ printed_http = r

C6_Witness == pc = "done" /\ r >= 400 /\ put_count = 1

\* C7: the service receives the training file first and the validation file
\* second; the job request comes after both and names exactly the two
\* identifiers issued; every retrieval names the job identifier issued for
\* that request; and the PUT is sent only after the loop has been left.
C7_Order ==
    /\ Len(svc_files) <= 2
    /\ Len(svc_files) >= 1 => training_file_id = svc_files[1]
    /\ Len(svc_files) >= 2 => validation_file_id = svc_files[2]
    /\ svc_job_id # NULL =>
          /\ Len(svc_files) = 2
          /\ svc_job.training_file = svc_files[1]
          /\ svc_job.validation_file = svc_files[2]
          /\ job_id = svc_job_id
    /\ retrieve_args # {} =>
          /\ svc_job_id # NULL
          /\ retrieve_args = {svc_job_id}
    /\ put_count > 0 =>
          /\ printed_status \in Terminal
          /\ pc \notin LoopBody \cup {"first_retrieve", "loop_test"}

C7_Witness ==
    /\ pc = "done"
    /\ Len(svc_files) = 2
    /\ svc_files[1] # svc_files[2]

(***************************************************************************)
(* Per-row inference failures.                                             *)
(***************************************************************************)
Models == {"baseline", "finetuned"}

Responses(model) ==
    IF model = "baseline" THEN baseline_model_response
    ELSE finetuned_model_response

FinalAnswers(model) ==
    IF model = "baseline" THEN baseline_final_answer
    ELSE finetuned_final_answer

\* what the remote call made for a row came to
OutcomeOf(model, i) ==
    LET j == CHOOSE k \in 1..Len(calls) :
                 calls[k].model = model /\ calls[k].row = i
    IN calls[j].outcome

\* C4: the response of a row is None exactly when its remote call raised, and
\* a row whose call returned keeps what that call returned; the batch is never
\* aborted: after inference every row has been sent once to each model with
\* its own instruction, and after the clean-up the final answer of every
\* failed row is None.
C4_FailOpen ==
    /\ eval_pc # "aborted"
    /\ \A model \in Models : \A i \in 1..Len(Responses(model)) :
          /\ (Responses(model)[i] = None) <=> (<<model, i>> \in raised)
          /\ <<model, i>> \notin raised =>
                Responses(model)[i] = OutcomeOf(model, i)
    /\ eval_pc \in {"clean", "cleaned"} =>
          LET n == Len(instruction)
          IN /\ Len(calls) = 2 * n
             /\ Len(baseline_model_response) = n
             /\ Len(finetuned_model_response) = n
             /\ \A i \in 1..n :
                   /\ calls[i].model = "baseline"
                   /\ calls[i].row = i
                   /\ calls[i].prompt = instruction[i]
                   /\ calls[n + i].model = "finetuned"
                   /\ calls[n + i].row = i
                   /\ calls[n + i].prompt = instruction[i]
    /\ eval_pc = "cleaned" =>
          \A model \in Models : \A i \in 1..Len(instruction) :
             <<model, i>> \in raised => FinalAnswers(model)[i] = None

C4_Witness ==
    /\ eval_pc = "cleaned"
    /\ Len(instruction) >= 2
    /\ <<"baseline", 1>> \in raised
    /\ <<"baseline", 2>> \notin raised
    /\ baseline_final_answer[1] = None
    /\ baseline_final_answer[2] # None

(***************************************************************************)
(* Token counting and the cost estimate.                                   *)
(***************************************************************************)
HasRole(msg) == \E j \in 1..Len(msg) : msg[j][1] = "role"

AllHaveRole(messages) == \A i \in 1..Len(messages) : HasRole(messages[i])

\* the token count of the j-th value of the i-th message
FieldCount(messages, i, j) == encoding[messages[i][j][2]]

RECURSIVE SumFields(_, _, _)
\* the token counts of all values from field j of message i on
SumFields(messages, i, j) ==
    IF i > Len(messages) THEN 0
    ELSE IF j > Len(messages[i]) THEN SumFields(messages, i + 1, 1)
    ELSE FieldCount(messages, i, j) + SumFields(messages, i, j + 1)

\* C8: for a conversation of n messages that each have a "role" key, the
\* count returned is 3n + the token counts of all field values + n + 3, which
\* for two messages is 6 + sum + 2 + 3; and the total of the data set is the
\* sum of the counts returned for its conversations.
C8_TokenCount ==
    lines > 0 =>
        /\ AllHaveRole(message) =>
              returned = 3 * Len(message) + SumFields(message, 1, 1)
                         + Len(message) + 3
        /\ (AllHaveRole(message) /\ Len(message) = 2) =>
              returned = 6 + SumFields(message, 1, 1) + 2 + 3
        /\ num_tokens = sum_returned

C8_Witness ==
    /\ lines = 2
    /\ Len(message) = 2
    /\ AllHaveRole(message)
    /\ Len(message[1]) = 3
    /\ encoding["a"] # encoding["b"]
    /\ num_tokens > returned

IsPowerOfTwo(k) == \E j \in 0..k : 2 ^ j = k

\* C9 as stated: the estimate for k times the epochs is k times the estimate,
\* for every factor k.
C9_LinearInEpochs ==
    tok_pc = "done" =>
        \A k \in 1..MaxFactor :
            TotalCost(num_tokens, k * num_epochs) = FMulInt(total_cost, k)

\* C9: the estimate for 6 epochs is exactly twice the estimate for 3 epochs,
\* and the estimate for k times the epochs is exactly k times the estimate
\* whenever k is a power of two.
C9_DoublingEpochs ==
    tok_pc = "done" =>
        /\ num_epochs = 3 =>
              TotalCost(num_tokens, 6) = FMulInt(total_cost, 2)
        /\ \A k \in 1..MaxFactor :
              IsPowerOfTwo(k) =>
                 TotalCost(num_tokens, k * num_epochs) = FMulInt(total_cost, k)

C9_Witness ==
    /\ tok_pc = "done"
    /\ num_epochs = 3
    /\ num_tokens > 0
    /\ total_cost # FZero

(***************************************************************************)
(* The final answer.                                                       *)
(***************************************************************************)
\* the places where the marker occurs in s
Occurrences(s) == {i \in 1..Len(s) : OccursAt(s, MARKER, i)}

LastOccurrence(s) ==
    CHOOSE i \in Occurrences(s) : \A j \in Occurrences(s) : j <= i

\* C10: for a non-empty string the result is what follows the last occurrence
\* of the marker, and the string itself when the marker does not occur; for
\* None it is None.
C10_AfterLastMarker ==
    ex_pc = "done" =>
        /\ ex_input = None => ex_result = None
        /\ (ex_input # None /\ ex_input # <<>>) =>
              IF Occurrences(ex_input) = {}
              THEN ex_result = ex_input
              ELSE ex_result = SubSeq(ex_input,
                                      LastOccurrence(ex_input) + Len(MARKER),
                                      Len(ex_input))

C10_Witness ==
    /\ ex_pc = "done"
    /\ Cardinality(Occurrences(ex_input)) >= 2
    /\ ex_result # <<>>
    /\ Len(ex_result) < Len(ex_input)

(***************************************************************************)
(* The context.                                                            *)
(***************************************************************************)
\* the places where a newline occurs in s
Newlines(s) == {i \in 1..Len(s) : s[i] = "\n"}

LastNewline(s) == CHOOSE i \in Newlines(s) : \A j \in Newlines(s) : j <= i

\* the lines of s: the runs of characters between its newlines
LinesOf(s) ==
    LET cuts == <<0>> \o
                [k \in 1..Cardinality(Newlines(s)) |->
                    CHOOSE i \in Newlines(s) :
                        Cardinality({j \in Newlines(s) : j <= i}) = k]
                \o <<Len(s) + 1>>
    IN [k \in 1..(Len(cuts) - 1) |-> SubSeq(s, cuts[k] + 1, cuts[k + 1] - 1)]

\* C11: the context of an instruction string is the string up to its last
\* newline, that is, all of its lines but the final one, in order and joined
\* by newlines; an instruction without a newline has the empty context.
C11_AllLinesButLast ==
    (cx_pc = "done" /\ ex_input # None) =>
        /\ Newlines(ex_input) = {} => cx_result = <<>>
        /\ Newlines(ex_input) # {} =>
              cx_result = SubSeq(ex_input, 1, LastNewline(ex_input) - 1)
        /\ LET all == LinesOf(ex_input)
           IN /\ cx_result # AttributeError
              /\ IF Len(all) = 1 THEN cx_result = <<>>
                 ELSE LinesOf(cx_result) = SubSeq(all, 1, Len(all) - 1)

C11_Witness ==
    /\ cx_pc = "done"
    /\ ex_input # None
    /\ Cardinality(Newlines(ex_input)) = 2
    /\ Newlines(cx_result) # {}
    /\ Len(cx_result) = 3

\* an input that is None or the empty string
Empty(x) == x = None \/ x = <<>>

\* C12 as stated: neither function raises on any input, and each returns None
\* for None and for the empty string.
C12_BothTotal ==
    /\ ex_pc \in {"done", "twice"} => (Empty(ex_input) => ex_result = None)
    /\ cx_pc = "done" =>
          /\ cx_result # AttributeError
          /\ Empty(ex_input) => cx_result = None

\* C12: extract_final_answer never raises and returns None for None and for
\* the empty string; extract_context returns a string for every string, the
\* empty string for the empty string, and raises for None.
C12_TotalOnStrings ==
    /\ ex_pc \in {"done", "twice"} =>
          /\ ex_result # AttributeError
          /\ Empty(ex_input) <=> ex_result = None
    /\ cx_pc = "done" =>
          /\ ex_input # None => cx_result \notin {AttributeError, None}
          /\ ex_input = <<>> => cx_result = <<>>
          /\ ex_input = None <=> cx_result = AttributeError

C12_Witness ==
    /\ ex_pc = "done"
    /\ cx_pc = "done"
    /\ ex_input = None
    /\ ex_result = None
    /\ cx_result = AttributeError

(***************************************************************************)
(* Cleaning a final answer again.                                          *)
(***************************************************************************)
\* C17 as stated: cleaning the result again gives the result, for every input.
C17_Idempotent ==
    ex_pc = "twice" => ex_twice = ex_result

\* C17: a result that is not None never contains the marker; cleaning the
\* result again gives the result unless the result is the empty string, which
\* it is exactly for the strings that end with the marker, and then cleaning
\* it again gives None.
C17_IdempotentButOnEmpty ==
    /\ (ex_pc \in {"done", "twice"} /\ ex_result # None) =>
          /\ Occurrences(ex_result) = {}
          /\ ex_result = <<>> <=>
                OccursAt(ex_input, MARKER, Len(ex_input) - Len(MARKER) + 1)
    /\ ex_pc = "twice" =>
          /\ ex_result # <<>> => ex_twice = ex_result
          /\ ex_result = <<>> => ex_twice = None

C17_Witness ==
    /\ ex_pc = "twice"
    /\ Cardinality(Occurrences(ex_input)) >= 2
    /\ ex_result # <<>>
    /\ ex_result # ex_input
    /\ ex_twice = ex_result

(***************************************************************************)
(* The datasets of the evaluation.                                         *)
(***************************************************************************)
Datasets == <<baseline_df, finetuned_df>>

\* the datasets that have been built
Built ==
    {d \in 1..2 : (d = 1 /\ eval_pc \in {"baseline_dataset", "datasets"})
                  \/ (d = 2 /\ eval_pc = "datasets")}

\* C13 as stated: in every row of each dataset the contexts field has exactly
\* one element, the context extracted from the instruction of the row.
C13_OneContext ==
    \A d \in Built : \A i \in 1..Len(instruction) :
       /\ Len(Datasets[d][i].contexts) = 1
       /\ Datasets[d][i].contexts[1] = extract_context(instruction[i])

\* C13: in every row of each dataset the contexts field has one element, the
\* context extracted from the instruction of the row, when that context is
\* not empty, and no element when it is empty, as it is for an instruction
\* of a single line.
C13_ContextOrNothing ==
    \A d \in Built :
       /\ Len(Datasets[d]) = Len(instruction)
       /\ \A i \in 1..Len(instruction) :
             LET cs == Datasets[d][i].contexts
                 c == extract_context(instruction[i])
             IN /\ Len(cs) <= 1
                /\ Len(cs) = 1 <=> c # <<>>
                /\ Len(cs) = 1 => cs[1] = c
                /\ Newlines(instruction[i]) = {} => cs = <<>>

C13_Witness ==
    /\ eval_pc = "datasets"
    /\ Len(instruction) = 2
    /\ baseline_df[1].contexts = << <<"d", "1", "\n", "d", "2">> >>
    /\ finetuned_df[1].contexts = baseline_df[1].contexts
    /\ baseline_df[2].contexts = <<>>
    /\ finetuned_df[2].contexts = <<>>

(***************************************************************************)
(* Inference, one call at a time.                                          *)
(***************************************************************************)
\* the requests progress_apply issues for one model over n rows
RequestsOf(model, n) == [i \in 1..n |-> [model |-> model, row |-> i]]

\* C14: at most one inference request is outstanding; the requests issued so
\* far are those of the baseline model for rows 1, 2, ... followed by those of
\* the fine-tuned model for rows 1, 2, ..., each row once per model whatever
\* the earlier calls came to; a request of the fine-tuned model is issued only
\* when every baseline call is answered; and after inference both response
\* columns, and later both datasets, have as many rows as the test set.
C14_OneAtATime ==
    LET n == Len(instruction)
        nb == Len(SelectSeq(sent, LAMBDA q : q.model = "baseline"))
        nf == Len(SelectSeq(sent, LAMBDA q : q.model = "finetuned"))
    IN /\ Len(in_flight) <= 1
       /\ Len(in_flight) = 1 <=> eval_pc \in {"baseline_wait", "finetuned_wait"}
       /\ Len(in_flight) = 1 => in_flight[1] = sent[Len(sent)]
       /\ sent = RequestsOf("baseline", nb) \o RequestsOf("finetuned", nf)
       /\ nb <= n /\ nf <= n
       /\ Len(calls) = Len(sent) - Len(in_flight)
       /\ nf > 0 =>
             /\ nb = n
             /\ Len(baseline_model_response) = n
             /\ \A k \in 1..Len(in_flight) : in_flight[k].model = "finetuned"
       /\ eval_pc \in {"clean", "cleaned", "baseline_dataset", "datasets"} =>
             /\ nb = n /\ nf = n
             /\ in_flight = <<>>
             /\ Len(baseline_model_response) = n
             /\ Len(finetuned_model_response) = n
       /\ \A d \in Built : Len(Datasets[d]) = n

C14_Witness ==
    /\ eval_pc = "finetuned_wait"
    /\ Len(instruction) = 2
    /\ row = 2
    /\ in_flight = <<[model |-> "finetuned", row |-> 2]>>
    /\ Len(sent) = 4
    /\ <<"baseline", 1>> \in raised
    /\ <<"finetuned", 1>> \in raised

(***************************************************************************)
(* The rhythm of the poll loop.                                            *)
(***************************************************************************)
\* C15: in the poll cell sleeps and retrievals alternate: the run is at the
\* retrieval of the loop only right after a sleep and at the sleep only right
\* after a retrieval, so that outside the loop body the loop has made as many
\* retrievals as sleeps (one more with the retrieval before the loop); and
\* every sleep takes the same 10 seconds.
C15_SleepRetrieveAlternate ==
    /\ slept \in {0, PollInterval}
    /\ sleeps > 0 <=> slept = PollInterval
    /\ pc = "sleep" => last_op = "retrieve"
    /\ pc = "poll_retrieve" =>
          /\ last_op = "sleep"
          /\ sleeps = Bump(poll_retrievals)
    /\ pc # "poll_retrieve" => poll_retrievals = sleeps
    /\ pc \in AfterLoop \cup {"loop_test"} => last_op = "retrieve"
    /\ last_op = "sleep" => pc = "poll_retrieve"

C15_Witness ==
    /\ pc = "print_finished"
    /\ sleeps = 2
    /\ poll_retrievals = 2
    /\ slept = PollInterval
    /\ last_op = "retrieve"

(***************************************************************************)
(* Deployment whatever the job came to.                                    *)
(***************************************************************************)
\* C16: once the loop is left with either terminal status, the run goes on,
\* unless a call raises, to one fine_tuned_model retrieval and then to the
\* PUT: the PUT is sent for a failed job as for a succeeded one, and it
\* carries the value that retrieval returned, the model name or None.
C16_DeployUngated ==
    /\ [](/\ pc = "deploy" =>
                /\ model_retrievals = 1
                /\ put_count = 0
          /\ pc \in {"print_result", "done"} =>
                /\ model_retrievals = 1
                /\ put_count = 1
                /\ put_model = fine_tuned_model
                /\ put_model \in {ModelName, NULL}
                /\ printed_status \in Terminal)
    /\ \A st \in Terminal :
          (pc = "print_finished" /\ status = st)
             ~> (pc = "aborted" \/ (put_count = 1 /\ printed_status = st))

C16_Witness ==
    /\ pc = "done"
    /\ printed_status = "failed"
    /\ job_status = "failed"
    /\ model_retrievals = 1
    /\ put_count = 1
    /\ put_model = NULL
    /\ fine_tuned_model = NULL

====
